---- MODULE Spec2Model ----
(***************************************************************************)
(* A model of calc-freq.py, the Icelandic inflection evaluation data       *)
(* generator: the frequency bucketer, the Buckets store (add, write, read, *)
(* choose), the noun and adjective processors and generate().              *)
(*                                                                         *)
(* Text is modelled as a sequence of one-character strings, so that        *)
(* str.strip, str.split and the line iteration of a text file are          *)
(* computed rather than assumed.                                           *)
(***************************************************************************)
EXTENDS Integers, Sequences, FiniteSets, TLC

\* ------------------------------------------------------------------ bounds

\* Frequencies 0..MaxFreq (and a few larger ones) are fed to bucket().
MaxFreq == 120
\* Largest sample limit handed to Buckets.write by the store harness.
MaxLimit == 2
\* Largest count handed to generate() (the program itself passes 10).
MaxCount == 2
\* At most this many lines of the master CSV files are missing from an input.
MaxDrop == 1

\* ------------------------------------------------------- program constants

MAX_BUCKETS == 3

\* The sample caps of the processors, scaled down from 1000 and 500 so that
\* a bucket can hold more lemmas than the cap.
NUM_NOUN_SAMPLES == 2
NUM_ADJECTIVE_SAMPLES == 1

BucketIds == 0 .. (MAX_BUCKETS - 1)

DIFFICULTY == [k \in BucketIds |-> IF k = 0 THEN "hard" ELSE IF k = 1 THEN "medium" ELSE "easy"]

\* ------------------------------------------------------------------ helpers

Min(a, b) == IF a <= b THEN a ELSE b

Range(s) == {s[i] : i \in DOMAIN s}

\* ------------------------------------------------------------------- bucket

\* int(math.log10(n)) for n >= 1: the number of decimal digits of n, less one.
RECURSIVE Log10Floor(_)
Log10Floor(n) == IF n < 10 THEN 0 ELSE 1 + Log10Floor(n \div 10)

\* A bucketer that forgets to saturate at the top bucket.
bucket_unsaturated(freq) == IF freq <= 1 THEN 0 ELSE Log10Floor(freq)

bucket(freq) == IF freq <= 1 THEN 0 ELSE Min(MAX_BUCKETS - 1, Log10Floor(freq))

\* -------------------------------------------------------------------- words

\* Words are sequences of one-character strings.  The spelling is folded to
\* ASCII (hatur, fluga, hestur, godur for "góður", ljufur for "ljúfur", ...).

w_api == <<"a", "p", "i">>
w_apar == <<"a", "p", "a", "r">>
w_hatur == <<"h", "a", "t", "u", "r">>
w_fluga == <<"f", "l", "u", "g", "a">>
w_flugur == <<"f", "l", "u", "g", "u", "r">>
w_hestur == <<"h", "e", "s", "t", "u", "r">>
w_hestar == <<"h", "e", "s", "t", "a", "r">>
w_ver == <<"v", "e", "r">>
w_for == <<"f", "o", "r">>
w_fara == <<"f", "a", "r", "a">>
w_rammur == <<"r", "a", "m", "m", "u", "r">>
w_romm == <<"r", "o", "m", "m">>
w_rammt == <<"r", "a", "m", "m", "t">>
w_rammir == <<"r", "a", "m", "m", "i", "r">>
w_rammar == <<"r", "a", "m", "m", "a", "r">>
w_ljufur == <<"l", "j", "u", "f", "u", "r">>
w_ljuf == <<"l", "j", "u", "f">>
w_ljuft == <<"l", "j", "u", "f", "t">>
w_ljufir == <<"l", "j", "u", "f", "i", "r">>
w_ljufar == <<"l", "j", "u", "f", "a", "r">>
w_godur == <<"g", "o", "d", "u", "r">>
w_god == <<"g", "o", "d">>
w_gott == <<"g", "o", "t", "t">>
w_godir == <<"g", "o", "d", "i", "r">>
w_godar == <<"g", "o", "d", "a", "r">>
w_sannur == <<"s", "a", "n", "n", "u", "r">>
w_sonn == <<"s", "o", "n", "n">>
w_satt == <<"s", "a", "t", "t">>
w_sannir == <<"s", "a", "n", "n", "i", "r">>
w_sannar == <<"s", "a", "n", "n", "a", "r">>
w_bakki == <<"b", "a", "k", "k", "i">>
w_fallegur == <<"f", "a", "l", "l", "e", "g", "u", "r">>
w_gar == <<"g", "a", "r">>
w_hreinn == <<"h", "r", "e", "i", "n", "n">>
w_Jon == <<"J", "o", "n">>
w_legur == <<"l", "e", "g", "u", "r">>
w_kk == <<"k", "k">>
w_kvk == <<"k", "v", "k">>
w_hk == <<"h", "k">>
w_lo == <<"l", "o">>
w_so == <<"s", "o">>

Comma == ","
Newline == "\n"

\* The characters str.strip() removes that occur in the modelled files.
Whitespace == {" ", "\t", "\n"}

\* The upper-case letters that occur in the modelled files (str.isupper).
UpperCase == {"J"}

\* --------------------------------------------------------------------- text

\* str.lstrip(), str.rstrip() and str.strip() with no argument.
RECURSIVE lstrip(_)
lstrip(s) == IF s # <<>> /\ Head(s) \in Whitespace THEN lstrip(Tail(s)) ELSE s

RECURSIVE rstrip(_)
rstrip(s) == IF s # <<>> /\ s[Len(s)] \in Whitespace THEN rstrip(SubSeq(s, 1, Len(s) - 1)) ELSE s

strip(s) == rstrip(lstrip(s))

\* The position of the first ch in s, or 0 when s holds none.
RECURSIVE IndexFrom(_, _, _)
IndexFrom(s, ch, i) == IF i > Len(s) THEN 0 ELSE IF s[i] = ch THEN i ELSE IndexFrom(s, ch, i + 1)

find(s, ch) == IndexFrom(s, ch, 1)

\* str.split(sep) for a one-character separator.
RECURSIVE split(_, _)
split(s, sep) ==
    LET i == find(s, sep)
    IN  IF i = 0 THEN <<s>>
        ELSE <<SubSeq(s, 1, i - 1)>> \o split(SubSeq(s, i + 1, Len(s)), sep)

\* str.endswith(suffix).
endswith(s, suffix) ==
    /\ Len(suffix) <= Len(s)
    /\ SubSeq(s, Len(s) - Len(suffix) + 1, Len(s)) = suffix

\* Iterating a text file: the lines of text, each with its line break, the
\* last one without when the text does not end in one.
RECURSIVE readlines(_)
readlines(text) ==
    IF text = <<>> THEN <<>>
    ELSE LET i == find(text, Newline)
         IN  IF i = 0 THEN <<text>>
             ELSE <<SubSeq(text, 1, i)>> \o readlines(SubSeq(text, i + 1, Len(text)))

\* The text of a file written one f"{lemma}\n" at a time.
RECURSIVE writelines(_)
writelines(ls) ==
    IF ls = <<>> THEN <<>> ELSE Head(ls) \o <<Newline>> \o writelines(Tail(ls))

\* The stripped lines of a text that are not blank, in file order: the body of
\* the loops "for line in inp: if (line := line.strip()): ...".
NonBlank(line) == line # <<>>

stripped(ls) == SelectSeq([i \in 1 .. Len(ls) |-> strip(ls[i])], NonBlank)

\* The same loop with the strip() forgotten: every line keeps its line break.
nonblank_lines_unstripped(text) == readlines(text)

nonblank_lines(text) == stripped(readlines(text))

\* -------------------------------------------------------------------- files

\* The data directory.  A bucket file f"{name}-{bucket}.txt" is keyed by
\* <<name, bucket>>, an output file by its difficulty label.
StoreNames == {"nouns", "adj"}

BucketFiles == StoreNames \X BucketIds

NoFile == [exists |-> FALSE, text |-> <<>>]

TextFile(text) == [exists |-> TRUE, text |-> text]

\* ------------------------------------------------------------ class Buckets

\* defaultdict(set) and defaultdict(list) before any key is touched.
EmptyDict == [k \in {} |-> {}]

\* self.buckets[b] of a defaultdict(set): a missing key reads as the empty set.
GetSet(buckets, b) == IF b \in DOMAIN buckets THEN buckets[b] ELSE {}

\* Buckets.add: the store's buckets after add(lemma, freq).
add(buckets, lemma, freq) ==
    LET b == bucket(freq)
    IN  [k \in DOMAIN buckets \cup {b} |->
            IF k = b THEN GetSet(buckets, b) \cup {lemma} ELSE buckets[k]]

\* random.sample(llist, n): every arrangement of n distinct members.
sample(S, n) == {s \in [1 .. n -> S] : \A i, j \in 1 .. n : i # j => s[i] # s[j]}

\* A write that ignores the limit and writes the whole bucket.
samples_unlimited(limit, n) == n

\* samples = min(limit, len(llist))
samples(limit, n) == Min(limit, n)

\* The buckets Buckets.write opens a file for.
written(buckets) == {k \in DOMAIN buckets : ~(Cardinality(buckets[k]) < 1)}

\* Buckets.write: the data directories it can leave behind.
write(name, buckets, limit, d) ==
    LET K == written(buckets)
        draws == {s \in [K -> UNION {sample(buckets[k], samples(limit, Cardinality(buckets[k]))) : k \in K}] :
                    \A k \in K : s[k] \in sample(buckets[k], samples(limit, Cardinality(buckets[k])))}
    IN  {[fn \in DOMAIN d |->
            IF fn[1] = name /\ fn[2] \in K THEN TextFile(writelines(s[fn[2]])) ELSE d[fn]] :
         s \in draws}

\* Buckets.read: the store's lemmas after read(bucket).  self.lemmas[bucket]
\* creates the key before the file is opened, so the key exists whether or not
\* the file does.
read(name, b, lemmas, d) ==
    LET bu == IF b \in DOMAIN lemmas THEN lemmas[b] ELSE <<>>
        f == d[<<name, b>>]
        got == IF f.exists THEN bu \o nonblank_lines(f.text) ELSE bu
    IN  [k \in DOMAIN lemmas \cup {b} |-> IF k = b THEN got ELSE lemmas[k]]

\* The outcome of a call that returns a string or raises IndexError.
Raised == [err |-> TRUE, val |-> <<>>]

Returned(v) == [err |-> FALSE, val |-> v]

\* A choice that answers the empty string for an empty list.
choice_default(list) == IF list = <<>> THEN {Returned(<<>>)} ELSE {Returned(x) : x \in Range(list)}

\* random.choice(list): any member, IndexError on an empty list.
choice(list) == IF list = <<>> THEN {Raised} ELSE {Returned(x) : x \in Range(list)}

\* A choose that reads the file on every call.
loaded_always(name, b, lemmas, d) == [lemmas |-> read(name, b, lemmas, d), did_read |-> TRUE]

\* "if bucket not in self.lemmas: self.read(bucket)": the store's lemmas once
\* choose(bucket) has made sure the bucket is loaded, and whether it read the file.
loaded(name, b, lemmas, d) ==
    IF b \notin DOMAIN lemmas
    THEN [lemmas |-> read(name, b, lemmas, d), did_read |-> TRUE]
    ELSE [lemmas |-> lemmas, did_read |-> FALSE]

\* Buckets.choose: the store's lemmas after the call, whether the call read the
\* bucket's file, and what it can return.
choose(name, b, lemmas, d) ==
    LET l == loaded(name, b, lemmas, d)
    IN  [lemmas |-> l.lemmas, did_read |-> l.did_read, picks |-> choice(l.lemmas[b])]

\* --------------------------------------------------- the BIN dictionary (b)

\* Grammatical tags, as the strings lookup_variants is called with.
t_KK == <<"K", "K">>
t_KVK == <<"K", "V", "K">>
t_HK == <<"H", "K">>
t_FSB == <<"F", "S", "B">>
t_NF == <<"N", "F">>
t_ET == <<"E", "T">>
t_FT == <<"F", "T">>
t_GM == <<"G", "M">>

\* An entry of the dictionary: the lemma (ord) with its number in the
\* dictionary (id), its category (ofl), a word form (bmynd) and its tags (mark).
BinEntry(id, ord, ofl, bmynd, mark) ==
    [id |-> id, ord |-> ord, ofl |-> ofl, bmynd |-> bmynd, mark |-> mark]

\* The six strong nominative forms of an adjective: singular and plural of the
\* three genders (the feminine singular and the neuter plural coincide).
AdjectiveEntries(id, lemma, kvk_et, hk_et, kk_ft, kvk_ft) ==
    { BinEntry(id, lemma, w_lo, lemma,  {t_KK,  t_FSB, t_NF, t_ET}),
      BinEntry(id, lemma, w_lo, kvk_et, {t_KVK, t_FSB, t_NF, t_ET}),
      BinEntry(id, lemma, w_lo, hk_et,  {t_HK,  t_FSB, t_NF, t_ET}),
      BinEntry(id, lemma, w_lo, kk_ft,  {t_KK,  t_FSB, t_NF, t_FT}),
      BinEntry(id, lemma, w_lo, kvk_ft, {t_KVK, t_FSB, t_NF, t_FT}),
      BinEntry(id, lemma, w_lo, kvk_et, {t_HK,  t_FSB, t_NF, t_FT}) }

\* The contents of the dictionary behind islenska.Bin(): a small table with a
\* noun of each gender, nouns with and without a plural, a noun with two
\* meanings (ver), a noun whose word form also belongs to a verb (for), a word
\* that is both a noun and an adjective (hreinn), and adjectives.
BIN ==
    { BinEntry(1, w_api,    w_kk,  w_api,    {t_NF, t_ET}),
      BinEntry(1, w_api,    w_kk,  w_apar,   {t_NF, t_FT}),
      BinEntry(2, w_hatur,  w_hk,  w_hatur,  {t_NF, t_ET}),
      BinEntry(3, w_fluga,  w_kvk, w_fluga,  {t_NF, t_ET}),
      BinEntry(3, w_fluga,  w_kvk, w_flugur, {t_NF, t_FT}),
      BinEntry(4, w_hestur, w_kk,  w_hestur, {t_NF, t_ET}),
      BinEntry(4, w_hestur, w_kk,  w_hestar, {t_NF, t_FT}),
      BinEntry(5, w_ver,    w_hk,  w_ver,    {t_NF, t_ET}),
      BinEntry(6, w_ver,    w_kk,  w_ver,    {t_NF, t_ET}),
      BinEntry(31, w_bakki,  w_kk,  w_bakki,  {t_NF, t_ET}),
      BinEntry(32, w_bakki,  w_kk,  w_bakki,  {t_NF, t_ET}),
      BinEntry(7, w_for,    w_kvk, w_for,    {t_NF, t_ET}),
      BinEntry(8, w_fara,   w_so,  w_for,    {t_GM}),
      BinEntry(8, w_fara,   w_so,  w_fara,   {t_GM}),
      BinEntry(9, w_hreinn, w_kk,  w_hreinn, {t_NF, t_ET}),
      BinEntry(10, w_hreinn, w_lo,  w_hreinn, {t_KK, t_FSB, t_NF, t_ET}),
      BinEntry(11, w_Jon,    w_kk,  w_Jon,    {t_NF, t_ET}),
      BinEntry(12, w_gar,    w_lo,  w_gar,    {t_KK, t_FSB, t_NF, t_ET}),
      BinEntry(13, w_fallegur, w_lo, w_fallegur, {t_KK, t_FSB, t_NF, t_ET}) }
    \cup AdjectiveEntries(101, w_rammur, w_romm, w_rammt, w_rammir, w_rammar)
    \cup AdjectiveEntries(102, w_ljufur, w_ljuf, w_ljuft, w_ljufir, w_ljufar)
    \cup AdjectiveEntries(103, w_godur,  w_god,  w_gott,  w_godir,  w_godar)
    \cup AdjectiveEntries(104, w_sannur, w_sonn, w_satt,  w_sannir, w_sannar)

\* b.lookup_lemmas(lemma)[1]: the entries whose word form is the lemma itself,
\* one for each meaning of the lemma.
lookup_lemmas(lemma) == {e \in BIN : e.ord = lemma /\ e.bmynd = lemma}

\* b.lookup(word)[1]: the entries whose word form is word.
lookup(word) == {e \in BIN : e.bmynd = word}

\* b.lookup_variants(lemma, cat, tags): the entries of (lemma, cat) that carry
\* every tag.
lookup_variants(lemma, cat, tags) ==
    {e \in BIN : e.ord = lemma /\ e.ofl = cat /\ tags \subseteq e.mark}

\* str.upper() on the gender codes.
UpperOf(ch) == IF ch = "k" THEN "K" ELSE IF ch = "v" THEN "V" ELSE IF ch = "h" THEN "H" ELSE ch

upper(s) == [i \in DOMAIN s |-> UpperOf(s[i])]

\* ------------------------------------------------ the icegrams database

\* ngrams.freq(wordform): the corpus count of a word form.
ngrams_freq(wordform) ==
    CASE wordform = w_api    -> 3
      [] wordform = w_apar   -> 2
      [] wordform = w_hatur  -> 1
      [] wordform = w_fluga  -> 30
      [] wordform = w_flugur -> 25
      [] wordform = w_hestur -> 400
      [] wordform = w_hestar -> 300
      [] wordform = w_ver    -> 900
      [] wordform = w_bakki  -> 50
      [] wordform = w_for    -> 5000
      [] wordform = w_hreinn -> 70
      [] wordform = w_rammur -> 2
      [] wordform = w_rammt  -> 1
      [] wordform = w_ljufur -> 20
      [] wordform = w_ljuf   -> 12
      [] wordform = w_ljuft  -> 9
      [] wordform = w_godur  -> 4000
      [] wordform = w_god    -> 3000
      [] wordform = w_gott   -> 9000
      [] wordform = w_godir  -> 800
      [] wordform = w_sannur -> 90
      [] wordform = w_satt   -> 600
      [] wordform = w_gar    -> 40
      [] OTHER -> 0

\* sum(ngrams.freq(wordform) for wordform in w)
RECURSIVE sum_freq(_)
sum_freq(w) ==
    IF w = {} THEN 0
    ELSE LET x == CHOOSE x \in w : TRUE IN ngrams_freq(x) + sum_freq(w \ {x})

\* ------------------------------------------------------------ input files

\* One line "lemma,gender" of nouns.csv.
NounLine(lemma, gender) == lemma \o <<Comma>> \o gender

\* The lines nouns.csv is made of.  Beside the well-formed lines of the
\* dictionary's nouns there is a noun with the wrong gender, a proper noun, a
\* line with one field, a lemma followed by a blank and a blank line.
NounMaster ==
    << NounLine(w_api, w_kk),
       NounLine(w_hatur, w_hk),
       NounLine(w_fluga, w_kvk),
       NounLine(w_hestur, w_kk),
       NounLine(w_ver, w_kk),
       NounLine(w_ver, w_hk),
       NounLine(w_ver, w_kvk),
       NounLine(w_bakki, w_kk),
       NounLine(w_for, w_kvk),
       NounLine(w_hestur, w_kvk),
       NounLine(w_hreinn, w_kk),
       NounLine(w_Jon, w_kk),
       w_hestur,
       NounLine(w_api \o <<" ">>, w_kk),
       <<" ">> >>

\* The lines adjectives.csv is made of: adjectives of the dictionary, one in
\* -legur, the deny-listed gar, a word that is also a noun, a line with blanks
\* around the lemma and a blank line.
AdjectiveMaster ==
    << w_rammur,
       w_ljufur,
       w_sannur,
       w_godur,
       w_fallegur,
       w_gar,
       w_hreinn,
       <<" ">> \o w_godur \o <<" ">>,
       <<>> >>

\* The sets of line numbers an input file may lack.
DropSets(n) == {D \in SUBSET (1 .. n) : Cardinality(D) <= MaxDrop}

\* The lines of master whose number is not in D, in order.
RECURSIVE KeepFrom(_, _, _)
KeepFrom(master, D, i) ==
    IF i > Len(master) THEN <<>>
    ELSE (IF i \in D THEN <<>> ELSE <<master[i]>>) \o KeepFrom(master, D, i + 1)

\* The input files the processors are run on: the text of the master lines,
\* less at most MaxDrop of them.
InputFiles(master) == {writelines(KeepFrom(master, D, 1)) : D \in DropSets(Len(master))}

\* -------------------------------------------------------------- generators

\* noun_generator over the stripped, non-blank lines of nouns.csv.
RECURSIVE noun_tuples(_)
noun_tuples(ls) ==
    IF ls = <<>> THEN <<>>
    ELSE LET n == split(Head(ls), Comma)
             rest == noun_tuples(Tail(ls))
         IN  IF Len(n) = 2
             THEN (IF n[1][1] \in UpperCase THEN rest ELSE << <<n[1], n[2]>> >> \o rest)
             ELSE rest

noun_generator(text) == noun_tuples(nonblank_lines(text))

adjective_generator(text) == nonblank_lines(text)

\* --------------------------------------------------------------- processors

AVOID_ADJECTIVES == {w_gar}

\* A first filter that looks only for a meaning of the right category.
one_meaning_any(forms, cat) == \E f \in forms : f.ofl = cat

\* not (len(forms) != 1 or forms[0].ofl != cat)
one_meaning(forms, cat) ==
    ~(Cardinality(forms) # 1 \/ (CHOOSE f \in forms : TRUE).ofl # cat)

\* w = set(f.bmynd for f in b.lookup(lemma)[1] if f.ord == lemma and f.ofl == cat)
wordforms(lemma, cat) == {f.bmynd : f \in {e \in lookup(lemma) : e.ord = lemma /\ e.ofl = cat}}

\* any(any(e.ofl != cat or e.ord != lemma for e in b.lookup(wf)[1]) for wf in w)
ambiguous(w, lemma, cat) == \E wf \in w : \E e \in lookup(wf) : e.ofl # cat \/ e.ord # lemma

\* The lemma passes both filters of the processor loop.
accepts(lemma, cat) ==
    /\ one_meaning(lookup_lemmas(lemma), cat)
    /\ ~ambiguous(wordforms(lemma, cat), lemma, cat)

\* A store under construction: its buckets, the add calls made on it and the
\* input the loop skipped.
NewStore == [buckets |-> EmptyDict, added |-> {}, skipped |-> {}]

Skip(st, lemma, cat) == [st EXCEPT !.skipped = @ \cup {<<lemma, cat>>}]

Register(st, lemma, cat) ==
    LET f == sum_freq(wordforms(lemma, cat))
    IN  [st EXCEPT !.buckets = add(@, lemma, f), !.added = @ \cup {<<lemma, cat, f>>}]

\* The loop of process_nouns over the tuples of noun_generator.
RECURSIVE noun_loop(_, _)
noun_loop(tuples, st) ==
    IF tuples = <<>> THEN st
    ELSE LET lemma == Head(tuples)[1]
             gender == Head(tuples)[2]
         IN  noun_loop(Tail(tuples), IF accepts(lemma, gender) THEN Register(st, lemma, gender) ELSE Skip(st, lemma, gender))

\* The loop of process_adjectives over the lemmas of adjective_generator.
RECURSIVE adjective_loop(_, _)
adjective_loop(ls, st) ==
    IF ls = <<>> THEN st
    ELSE LET lemma == Head(ls)
             skip == endswith(lemma, w_legur) \/ lemma \in AVOID_ADJECTIVES \/ ~accepts(lemma, w_lo)
         IN  adjective_loop(Tail(ls), IF skip THEN Skip(st, lemma, w_lo) ELSE Register(st, lemma, w_lo))

\* The stores the processor loops can build, one for each input file.
NounStores == {noun_loop(noun_generator(csv), NewStore) : csv \in InputFiles(NounMaster)}

AdjectiveStores == {adjective_loop(adjective_generator(csv), NewStore) : csv \in InputFiles(AdjectiveMaster)}

\* -------------------------------------------------------------------- state

VARIABLES
    calc,         \* the bucketer applied to two frequencies
    disk,         \* the bucket files of the data directory
    builder,      \* harness: buckets of the store that is added to and written
    persisted,    \* harness: the limit builder was written with, -1 while it is being built
    cache,        \* harness: lemmas of the store that is chosen from
    loaded_from,  \* harness: for each loaded bucket, the file as it was when read
    reads,        \* harness: how often each bucket's file was read by the store
    queried,      \* harness: the buckets choose was called for on the store
    last_call,    \* harness: the last choose call and its outcome
    run,          \* the last processor run: which one, and the store it built
    pc,           \* generate: where the run is
    count,        \* generate: its argument
    gbucket,      \* generate: the loop variable bucket
    c,            \* generate: the examples written for this bucket
    adj_lemmas,   \* generate: adj_buckets.lemmas
    noun_lemmas,  \* generate: noun_buckets.lemmas
    out,          \* the output files, by difficulty label
    opened,       \* generate: the output files this run has opened
    last_draw,    \* generate: what became of the last draw of this run
    retried       \* generate: this run has discarded a draw

calc_vars == <<calc>>
store_vars == <<builder, persisted, cache, loaded_from, reads, queried, last_call>>
proc_vars == <<run>>
gen_vars == <<pc, count, gbucket, c, adj_lemmas, noun_lemmas, out, opened, last_draw, retried>>
vars == <<calc, disk, builder, persisted, cache, loaded_from, reads, queried, last_call,
          run, pc, count, gbucket, c, adj_lemmas, noun_lemmas, out, opened, last_draw, retried>>

Labels == {DIFFICULTY[k] : k \in BucketIds}

NoCall == [called |-> FALSE, bucket |-> 0, err |-> FALSE, val |-> <<>>, again |-> FALSE]

NoRun == [kind |-> "none", buckets |-> EmptyDict, added |-> {}, skipped |-> {}]

\* An output file: whether it exists and its lines, one example each.
NoOutput == [exists |-> FALSE, lines |-> <<>>]

\* The data directory before any run, and every part of the state at its
\* starting value.
InitCalc == calc = [f |-> 0, g |-> 0, applied |-> FALSE, bf |-> 0, bg |-> 0]

InitDisk == disk = [fn \in BucketFiles |-> NoFile]

InitStore ==
    /\ builder = EmptyDict
    /\ persisted = -1
    /\ cache = EmptyDict
    /\ loaded_from = EmptyDict
    /\ reads = [k \in BucketIds |-> 0]
    /\ queried = {}
    /\ last_call = NoCall

InitProc == run = NoRun

InitGen ==
    /\ pc = "idle"
    /\ count = 0
    /\ gbucket = 0
    /\ c = 0
    /\ adj_lemmas = EmptyDict
    /\ noun_lemmas = EmptyDict
    /\ out = [l \in Labels |-> NoOutput]
    /\ opened = {}
    /\ last_draw = "none"
    /\ retried = FALSE

Init == InitCalc /\ InitDisk /\ InitStore /\ InitProc /\ InitGen

\* ------------------------------------------------- the bucketer on its own

\* The frequencies the bucketer is applied to: every one up to MaxFreq, and
\* the powers of ten beyond with their neighbours.
Frequencies == (0 .. MaxFreq) \cup {999, 1000, 1001, 9999, 10000, 100000}

InitBucket ==
    /\ \E f, g \in Frequencies : calc = [f |-> f, g |-> g, applied |-> FALSE, bf |-> 0, bg |-> 0]
    /\ InitDisk /\ InitStore /\ InitProc /\ InitGen

\* bucket() is applied to both frequencies.
apply_bucket ==
    /\ ~calc.applied
    /\ calc' = [calc EXCEPT !.applied = TRUE, !.bf = bucket(calc.f), !.bg = bucket(calc.g)]
    /\ UNCHANGED <<disk, store_vars, proc_vars, gen_vars>>

NextBucket == apply_bucket

SpecBucket == InitBucket /\ [][NextBucket]_vars

\* ---------------------------------------------------- the store on its own

\* The store is exercised under the name "nouns" with two lemmas and with
\* frequencies of every bucket.
HarnessName == "nouns"

HarnessLemmas == {w_api, w_hatur}

HarnessFrequencies == {0, 5, 10, 99, 100, 100000}


\* The harness uses the two stores the way the program does: a store is built
\* by add calls and written once; a second store of the same name, fresh when
\* the first is written, is then chosen from; new_stores discards both.
Building == persisted = -1

\* Buckets(name), twice: a store to build and a store to choose from.
new_stores ==
    /\ builder' = EmptyDict
    /\ persisted' = -1
    /\ cache' = EmptyDict
    /\ loaded_from' = EmptyDict
    /\ reads' = [k \in BucketIds |-> 0]
    /\ queried' = {}
    /\ last_call' = NoCall
    /\ UNCHANGED <<calc, disk, proc_vars, gen_vars>>

\* add(lemma, freq) on the store being built.
store_add ==
    /\ Building
    /\ \E lemma \in HarnessLemmas, f \in HarnessFrequencies :
        /\ builder' = add(builder, lemma, f)
        /\ UNCHANGED <<calc, disk, persisted, cache, loaded_from, reads, queried, last_call, proc_vars, gen_vars>>

\* write(limit) on the store being built.
store_write ==
    /\ Building
    /\ \E limit \in 0 .. MaxLimit :
        /\ disk' \in write(HarnessName, builder, limit, disk)
        /\ persisted' = limit
        /\ UNCHANGED <<calc, builder, cache, loaded_from, reads, queried, last_call, proc_vars, gen_vars>>

\* choose(bucket) on the store being chosen from.
store_choose ==
    /\ ~Building
    /\ \E b \in BucketIds :
        LET r == choose(HarnessName, b, cache, disk)
        IN  \E p \in r.picks :
                /\ cache' = r.lemmas
                /\ loaded_from' = IF r.did_read
                                  THEN [k \in DOMAIN loaded_from \cup {b} |->
                                            IF k = b THEN disk[<<HarnessName, b>>] ELSE loaded_from[k]]
                                  ELSE loaded_from
                /\ reads' = IF r.did_read THEN [reads EXCEPT ![b] = Min(@ + 1, 2)] ELSE reads
                /\ queried' = queried \cup {b}
                /\ last_call' = [called |-> TRUE, bucket |-> b, err |-> p.err, val |-> p.val,
                                 again |-> b \in queried]
                /\ UNCHANGED <<calc, disk, builder, persisted, proc_vars, gen_vars>>

NextStore == new_stores \/ store_add \/ store_write \/ store_choose

SpecStore == Init /\ [][NextStore]_vars

\* ------------------------------------------------------ claims: the bucketer

RECURSIVE Pow10(_)
Pow10(e) == IF e = 0 THEN 1 ELSE 10 * Pow10(e - 1)

\* C1: for every frequency f >= 0, bucket(f) is 0 when f <= 1 and otherwise
\* min(MAX_BUCKETS-1, e) for the e with 10^e <= f < 10^(e+1); bucket(0) =
\* bucket(1) = 0, bucket(10) = bucket(99) = 1, bucket(100) = bucket(100000) = 2;
\* the result lies in 0..2 and bucket is monotonic non-decreasing.
C1_BucketContract ==
    calc.applied =>
        /\ calc.bf \in 0 .. 2
        /\ (calc.f <= 1 => calc.bf = 0)
        /\ (calc.f > 1 =>
                \E e \in 0 .. 5 :
                    /\ Pow10(e) <= calc.f
                    /\ calc.f < Pow10(e + 1)
                    /\ calc.bf = Min(MAX_BUCKETS - 1, e))
        /\ (calc.f \in {0, 1} => calc.bf = 0)
        /\ (calc.f \in {10, 99} => calc.bf = 1)
        /\ (calc.f \in {100, 100000} => calc.bf = 2)
        /\ (calc.f <= calc.g => calc.bf <= calc.bg)

\* bucket() has been applied to 99 and to 100000.
C1_Witness == calc.applied /\ calc.f = 99 /\ calc.g = 100000 /\ calc.bf = 1 /\ calc.bg = 2

\* --------------------------------------------------------- claims: the store

\* The text of the harness store's file for bucket k, as lines.
FileLines(k) == readlines(disk[<<HarnessName, k>>].text)

\* C2: after add calls and write(limit), every bucket file written holds at
\* most limit lines: exactly min(limit, n) pairwise distinct lemmas of the
\* bucket's set, n being the number of lemmas in the bucket.
C2_WriteWithinLimit ==
    ~Building =>
        \A k \in BucketIds :
            GetSet(builder, k) # {} =>
                LET lines == FileLines(k)
                IN  /\ disk[<<HarnessName, k>>].exists
                    /\ Len(lines) <= persisted
                    /\ Len(lines) = Min(persisted, Cardinality(builder[k]))
                    /\ \A i, j \in DOMAIN lines : i # j => lines[i] # lines[j]
                    /\ \A i \in DOMAIN lines :
                            \E lemma \in builder[k] : lines[i] = lemma \o <<Newline>>

\* A bucket of two lemmas has been written with limit 1.
C2_Witness ==
    /\ persisted = 1
    /\ \E k \in BucketIds :
        /\ Cardinality(GetSet(builder, k)) = 2
        /\ Len(FileLines(k)) = 1

\* C3: when lemmas were added, the store written and a bucket that received a
\* lemma loaded back by a fresh store of the same name, every lemma of the
\* written sample is in the reloaded list; and when the bucket held no more
\* lemmas than the limit, the reloaded lemmas are exactly the bucket's set.
C3_RoundTrip ==
    ~Building =>
        \A k \in DOMAIN cache :
            GetSet(builder, k) # {} =>
                /\ \A lemma \in builder[k] :
                        lemma \o <<Newline>> \in Range(FileLines(k)) => lemma \in Range(cache[k])
                /\ (Cardinality(builder[k]) <= persisted => Range(cache[k]) = builder[k])

\* A bucket of two lemmas, written whole, has been loaded back.
C3_Witness ==
    /\ persisted = 2
    /\ \E k \in DOMAIN cache :
        /\ Cardinality(GetSet(builder, k)) = 2
        /\ Len(cache[k]) = 2

\* C4: choose on a bucket whose file was never created raises the
\* empty-selection failure, on the first call and on every later one; the
\* missing file is no error: the bucket is loaded, as empty.
C4_MissingFileRaises ==
    (last_call.called /\ ~disk[<<HarnessName, last_call.bucket>>].exists) =>
        /\ last_call.err
        /\ last_call.bucket \in DOMAIN cache
        /\ cache[last_call.bucket] = <<>>

\* choose has been called a second time on a bucket without a file.
C4_Witness ==
    /\ last_call.called
    /\ last_call.again
    /\ last_call.err
    /\ ~disk[<<HarnessName, last_call.bucket>>].exists

\* C9: over the choose calls on one store, a bucket's file is read on the
\* first call for that bucket only, and at most once, also when the file is
\* missing or empty; a bucket never queried is never loaded; once loaded, a
\* bucket's list never changes; it holds each line of the file exactly once,
\* and every lemma returned is a line of the bucket's file.
C9_LazyLoad ==
    [][ \/ new_stores
        \/ /\ \A k \in BucketIds :
                /\ reads'[k] <= 1
                /\ reads'[k] # reads[k] => k \notin queried /\ k \in queried'
                /\ reads'[k] > 0 => k \in queried'
           /\ DOMAIN cache' \subseteq queried'
           /\ \A k \in DOMAIN cache : k \in DOMAIN cache' /\ cache'[k] = cache[k]
           /\ \A k \in DOMAIN cache' :
                LET lines == readlines(loaded_from'[k].text)
                IN  /\ reads'[k] = 1
                    /\ Len(cache'[k]) = Len(lines)
                    /\ \A i \in DOMAIN lines : cache'[k][i] \o <<Newline>> = lines[i]
           /\ (last_call'.called /\ ~last_call'.err) =>
                last_call'.val \o <<Newline>> \in Range(readlines(loaded_from'[last_call'.bucket].text))
      ]_vars

\* A loaded bucket has been chosen from again while another was never queried.
C9_Witness ==
    /\ last_call.called
    /\ last_call.again
    /\ ~last_call.err
    /\ reads[last_call.bucket] = 1
    /\ queried # BucketIds

\* -------------------------------------------------- the processors' runs

\* The processors are run, any number of times and in any order, before the
\* first run of generate.

\* A run of generate is under way.
Running == pc \in {"open", "loop"}

\* process_nouns, from opening nouns.csv to the last file written.
process_nouns ==
    /\ pc = "idle"
    /\ \E st \in NounStores :
        /\ disk' \in write("nouns", st.buckets, NUM_NOUN_SAMPLES, disk)
        /\ run' = [kind |-> "nouns", buckets |-> st.buckets, added |-> st.added, skipped |-> st.skipped]
    /\ UNCHANGED <<calc, store_vars, gen_vars>>

\* process_adjectives, from opening adjectives.csv to the last file written.
process_adjectives ==
    /\ pc = "idle"
    /\ \E st \in AdjectiveStores :
        /\ disk' \in write("adj", st.buckets, NUM_ADJECTIVE_SAMPLES, disk)
        /\ run' = [kind |-> "adj", buckets |-> st.buckets, added |-> st.added, skipped |-> st.skipped]
    /\ UNCHANGED <<calc, store_vars, gen_vars>>

\* ----------------------------------------------------------------- generate

\* An output file opened for appending keeps what it held.
open_a(f) == [exists |-> TRUE, lines |-> f.lines]

\* file(name, "w") on an output file: it exists and is empty.
open_w(f) == [exists |-> TRUE, lines |-> <<>>]

\* A try block around the whole loop body.
caught_anywhere(step) == TRUE

\* The steps of the loop body inside "try: ... except IndexError: continue".
caught(step) == step = "plural"

\* What an IndexError raised at a step of the loop body does to the draw.
IndexError(step) == IF caught(step) THEN "discarded" ELSE IF step = "choose" THEN "empty" ELSE "lookup"

\* A retry that counts the discarded draw.
c_after_discard_counted(n) == n + 1

\* c after "continue": the discarded draw is not counted.
c_after_discard(n) == n

NoExample == [adj_lemma |-> <<>>, noun |-> <<>>, adj |-> <<>>, adj_ft |-> <<>>, noun_ft |-> <<>>]

Outcome(al, nl, kind, example) == [adj_lemmas |-> al, noun_lemmas |-> nl, kind |-> kind, example |-> example]

\* The lookups of one loop body, after both lemmas are chosen: every way they
\* can end.  An x[0] of a lookup's result is any entry of a non-empty result
\* and an IndexError on an empty one.
inflect(adj_lemma, noun, al, nl) ==
    IF lookup(noun) = {} THEN {Outcome(al, nl, IndexError("gender"), NoExample)}
    ELSE UNION {
        LET gender == e.ofl
            adj == lookup_variants(adj_lemma, w_lo, {upper(gender), t_FSB, t_NF, t_ET})
            adj_ft == lookup_variants(adj_lemma, w_lo, {upper(gender), t_FSB, t_NF, t_FT})
            noun_ft == lookup_variants(noun, gender, {t_NF, t_FT})
        IN  IF adj = {} \/ adj_ft = {} THEN {Outcome(al, nl, IndexError("adjective"), NoExample)}
            ELSE IF noun_ft = {} THEN {Outcome(al, nl, IndexError("plural"), NoExample)}
            ELSE {Outcome(al, nl, "written",
                          [adj_lemma |-> adj_lemma, noun |-> noun, adj |-> x.bmynd,
                           adj_ft |-> y.bmynd, noun_ft |-> z.bmynd]) :
                  x \in adj, y \in adj_ft, z \in noun_ft}
        : e \in lookup(noun)}

\* One pass of the body of "while c < count": every way it can end.
draw(b, al, nl, d) ==
    LET ca == choose("adj", b, al, d)
    IN  UNION {
            IF pa.err THEN {Outcome(ca.lemmas, nl, IndexError("choose"), NoExample)}
            ELSE LET cn == choose("nouns", b, nl, d)
                 IN  UNION {
                        IF pn.err THEN {Outcome(ca.lemmas, cn.lemmas, IndexError("choose"), NoExample)}
                        ELSE inflect(pa.val, pn.val, ca.lemmas, cn.lemmas)
                        : pn \in cn.picks}
            : pa \in ca.picks}

\* generate(count) is called: the two stores are made.
generate_start ==
    /\ ~Running
    /\ \E n \in 1 .. MaxCount : count' = n
    /\ pc' = "open"
    /\ gbucket' = 0
    /\ c' = 0
    /\ adj_lemmas' = EmptyDict
    /\ noun_lemmas' = EmptyDict
    /\ opened' = {}
    /\ last_draw' = "none"
    /\ retried' = FALSE
    /\ run' = NoRun
    /\ UNCHANGED <<calc, disk, store_vars, out>>

\* The output file of the bucket is opened and c set to 0.
generate_open ==
    /\ pc = "open"
    /\ out' = [out EXCEPT ![DIFFICULTY[gbucket]] = open_w(@)]
    /\ opened' = opened \cup {DIFFICULTY[gbucket]}
    /\ c' = 0
    /\ pc' = "loop"
    /\ UNCHANGED <<calc, disk, store_vars, proc_vars, count, gbucket, adj_lemmas, noun_lemmas, last_draw, retried>>

\* One pass of the loop body: an example is written, or the draw is discarded,
\* or an exception ends the run.
generate_draw ==
    /\ pc = "loop"
    /\ c < count
    /\ \E o \in draw(gbucket, adj_lemmas, noun_lemmas, disk) :
        /\ adj_lemmas' = o.adj_lemmas
        /\ noun_lemmas' = o.noun_lemmas
        /\ last_draw' = o.kind
        /\ retried' = (retried \/ o.kind = "discarded")
        /\ out' = IF o.kind = "written"
                  THEN [out EXCEPT ![DIFFICULTY[gbucket]].lines = Append(@, o.example)]
                  ELSE out
        /\ c' = IF o.kind = "written" THEN c + 1
                ELSE IF o.kind = "discarded" THEN c_after_discard(c) ELSE c
        /\ pc' = IF o.kind \in {"written", "discarded"} THEN "loop" ELSE "failed"
    /\ UNCHANGED <<calc, disk, store_vars, proc_vars, count, gbucket, opened>>

\* The while loop ends: the file is closed and the for loop goes on or ends.
generate_next ==
    /\ pc = "loop"
    /\ ~(c < count)
    /\ IF gbucket + 1 < MAX_BUCKETS
       THEN gbucket' = gbucket + 1 /\ pc' = "open"
       ELSE gbucket' = gbucket /\ pc' = "done"
    /\ UNCHANGED <<calc, disk, store_vars, proc_vars, count, c, adj_lemmas, noun_lemmas, out, opened, last_draw, retried>>

Next ==
    \/ process_nouns
    \/ process_adjectives
    \/ generate_start
    \/ generate_open
    \/ generate_draw
    \/ generate_next

Spec == Init /\ [][Next]_vars

\* ------------------------------------------------ generate, run on its own

\* The data directories that runs of one processor can turn those of S into.
RECURSIVE AfterRuns(_, _, _, _)
AfterRuns(name, stores, limit, S) ==
    LET T == S \cup UNION {write(name, st.buckets, limit, d) : st \in stores, d \in S}
    IN  IF T = S THEN S ELSE AfterRuns(name, stores, limit, T)

\* Every data directory the processors can leave behind, run any number of
\* times in any order on the input files: the reachable values of disk.
ProcessedDisks ==
    AfterRuns("adj", AdjectiveStores, NUM_ADJECTIVE_SAMPLES,
              AfterRuns("nouns", NounStores, NUM_NOUN_SAMPLES, {[fn \in BucketFiles |-> NoFile]}))

\* generate is started on a data directory the processors have left behind.
InitGenerate ==
    /\ disk \in ProcessedDisks
    /\ InitCalc /\ InitStore /\ InitProc /\ InitGen

NextGenerate ==
    \/ generate_start
    \/ generate_open
    \/ generate_draw
    \/ generate_next

\* A draw that is not discarded: it writes an example or ends the run.
draw_kept == generate_draw /\ last_draw' # "discarded"

\* A draw that is not discarded can be made: the state predicate that is
\* ENABLED <<draw_kept>>_vars (a kept draw changes c or pc).
CanKeep ==
    /\ pc = "loop"
    /\ c < count
    /\ \E o \in draw(gbucket, adj_lemmas, noun_lemmas, disk) : o.kind # "discarded"

\* random.choice is uniform: a pair that can be drawn at every pass of the loop
\* is drawn in the end, which is weak fairness of draw_kept, written with its
\* enabling condition CanKeep.  The other steps of the run are taken when they
\* can be.
Fairness ==
    /\ WF_vars(generate_open)
    /\ WF_vars(generate_next)
    /\ ([]<>(~CanKeep) \/ []<><<draw_kept>>_vars)

SpecFair == InitGenerate /\ [][NextGenerate]_vars /\ Fairness

\* The processors leave behind nothing but the directories generate is started on.
DiskProcessed == disk \in ProcessedDisks

\* ---------------------------------------------------- claims: the processors

\* The numbers of the dictionary's lemmas spelled lemma.
Meanings(lemma) == {e.id : e \in {x \in BIN : x.ord = lemma}}

\* The categories of the dictionary's lemmas spelled lemma.
Categories(lemma) == {e.ofl : e \in {x \in BIN : x.ord = lemma}}

\* The lemmas in the buckets of the last run's store.
Stored == UNION {run.buckets[k] : k \in DOMAIN run.buckets}

\* C6: process_nouns never adds a noun lemma with two or more meanings to a
\* bucket of the noun store, whatever gender its line supplies; a noun is
\* registered only if it has exactly one meaning, of the supplied gender.
C6_TwoMeaningsExcluded ==
    run.kind = "nouns" =>
        /\ \A lemma \in Stored : Cardinality(Meanings(lemma)) < 2
        /\ \A lemma \in Stored : \E t \in run.added : t[1] = lemma
        /\ \A t \in run.added :
                /\ Cardinality(Meanings(t[1])) = 1
                /\ Categories(t[1]) = {t[2]}

\* process_nouns has run on a file that offers a noun of two genders under
\* each of them and a noun with two homonymous lemmas, and has registered a noun.
C6_Witness ==
    /\ run.kind = "nouns"
    /\ {<<w_ver, w_kk>>, <<w_ver, w_hk>>, <<w_ver, w_kvk>>, <<w_bakki, w_kk>>} \subseteq run.skipped
    /\ w_hestur \in Stored

\* The lemmas on the lines of a bucket file.
FileLemmas(name, k) == Range(nonblank_lines(disk[<<name, k>>].text))

\* C10: after any processor runs, every bucket file of the store that exists
\* holds only lemmas the most recent run put into that bucket.
C10_FilesReflectLastRun ==
    \A name \in StoreNames, k \in BucketIds :
        (run.kind = name /\ disk[<<name, k>>].exists) =>
            FileLemmas(name, k) \subseteq GetSet(run.buckets, k)

\* ------------------------------------------------------- claims: generate

\* The noun has a nominative plural in the dictionary.
HasPlural(noun) == \E e \in BIN : e.ord = noun /\ {t_NF, t_FT} \subseteq e.mark

AdjPool(k) == FileLemmas("adj", k)

NounPool(k) == FileLemmas("nouns", k)

\* C5: when generate(count) completes, each of the three output files (hard
\* for bucket 0, medium for 1, easy for 2) holds exactly count lines, whatever
\* it held before; a draw discarded for want of a plural writes nothing and is
\* not counted; and every example written pairs an adjective and a noun of
\* the bucket the file belongs to.
C5_CountLinesPerFile ==
    /\ [](pc = "done" =>
            \A k \in BucketIds :
                LET f == out[IF k = 0 THEN "hard" ELSE IF k = 1 THEN "medium" ELSE "easy"]
                IN  /\ f.exists
                    /\ Len(f.lines) = count
                    /\ \A i \in DOMAIN f.lines :
                        /\ f.lines[i].adj_lemma \in AdjPool(k)
                        /\ f.lines[i].noun \in NounPool(k)
                        /\ HasPlural(f.lines[i].noun))
    /\ [][(generate_draw /\ last_draw' = "discarded") => (out' = out /\ c' = c)]_vars

\* A run with count 1 that discarded a draw has completed.
C5_Witness ==
    /\ pc = "done"
    /\ count = 1
    /\ retried
    /\ \A l \in Labels : Len(out[l].lines) = 1

\* Every noun of bucket k's pool lacks a plural; both pools have a lemma.
Stuck(k) == AdjPool(k) # {} /\ NounPool(k) # {} /\ \A n \in NounPool(k) : ~HasPlural(n)

\* Both pools of bucket k have a lemma, and some noun has a plural.
CanFinish(k) == AdjPool(k) # {} /\ \E n \in NounPool(k) : HasPlural(n)

\* C7: the retry on a missing plural is unbounded: when no noun of a bucket's
\* pool has a plural (the pools are not empty, the other lookups succeed), the
\* loop for that bucket never gets to count examples and generate never ends;
\* when the pool holds a noun with a plural, the loop for the bucket ends,
\* random choice being fair.
C7_UnboundedRetry ==
    /\ [][(pc = "loop" /\ Stuck(gbucket)) =>
            (pc' = "loop" /\ gbucket' = gbucket /\ c' = 0 /\ c' < count')]_vars
    /\ \A k \in BucketIds :
        (pc = "loop" /\ gbucket = k /\ CanFinish(k))
            ~> (~(pc = "loop" /\ gbucket = k) /\ Len(out[DIFFICULTY[k]].lines) = count)

\* The loop of a bucket whose nouns all lack a plural has discarded a draw.
C7_Witness ==
    /\ pc = "loop"
    /\ Stuck(gbucket)
    /\ last_draw = "discarded"
    /\ c = 0

\* C8: in generate, choosing from a bucket with no loaded lemma, adjective or
\* noun, is fatal: the failure ends the run and is never taken for a missing
\* plural and retried; no example is written for the bucket, and the output
\* files of the later buckets are not produced.
C8_EmptyPoolFatal ==
    /\ [][(pc = "loop" /\ c < count /\ (AdjPool(gbucket) = {} \/ NounPool(gbucket) = {})) =>
            (pc' = "failed" /\ last_draw' = "empty" /\ out' = out)]_vars
    /\ []((pc = "failed" /\ last_draw = "empty") =>
            /\ AdjPool(gbucket) = {} \/ NounPool(gbucket) = {}
            /\ out[DIFFICULTY[gbucket]].lines = <<>>
            /\ \A j \in BucketIds : j > gbucket => DIFFICULTY[j] \notin opened)

\* The run has failed at bucket 1, whose adjective pool has a lemma and whose
\* noun file does not exist.
C8_Witness ==
    /\ pc = "failed"
    /\ last_draw = "empty"
    /\ gbucket = 1
    /\ AdjPool(1) # {}
    /\ ~disk[<<"nouns", 1>>].exists

====
